---- MODULE Spec2Model ----
(***************************************************************************)
(* Booking lifecycle and payment reconciliation of the EventO backend.     *)
(*                                                                         *)
(* The document store holds Booking documents.  Every HTTP handler is an   *)
(* async function: between two awaits its code runs without interruption,  *)
(* but the store is read (findById) and written (save) at separate         *)
(* moments, and other requests may run in between.  A handler is therefore *)
(* modelled as a short sequence of atomic steps per worker p:              *)
(*     begin : middleware, findById and the synchronous checks after it    *)
(*     save  : document.save() - validation, the pre('save') hook and the  *)
(*             write of the modified paths                                 *)
(*     notify: the email/SMS fan-out and the response                      *)
(* Spec lets requests interleave; SeqSpec runs one request at a time.      *)
(* PaymentSpec interleaves the requests that create and pay a booking.     *)
(*                                                                         *)
(* Registration, contact verification by one-time codes and the Host       *)
(* profile updates work on the User and Host documents and on the          *)
(* in-memory code store; AccountSpec interleaves them.                     *)
(***************************************************************************)
EXTENDS Integers, Sequences, FiniteSets, TLC

\* ------------------------------------------------------------ bounds
MaxBookings == 1          \* bookings ever created
NumProcs == 2             \* requests in flight at the same time
MaxTicks == 1             \* days the clock may advance
FirstDay == 29            \* day the run starts on (0 is the 1st of the first month)
MaxAccounts == 2          \* principals ever registered

\* ------------------------------------------------------------ values
Unset == "undefined"      \* a path that holds no value (JavaScript undefined)
NoDate == 0 - 1             \* a Date path that holds no value

Users == {"u1", "u2", "u3"}
Hosts == {"h1", "h2", "h3"}
Procs == 1..NumProcs
BookingIds == 1..MaxBookings
TxIds == {"tx1", "tx2"}
IntentIds == {"pi1"}

\* Principals as the protect middleware resolves them from the token.
Actors == [isHost : {FALSE}, id : Users] \cup [isHost : {TRUE}, id : Hosts]

\* role of a User document, read by authorize() as req.user.role
role(u) == IF u = "u3" THEN "admin" ELSE "user"

\* Host documents: hostType and isVerified
hostType(h) == IF h = "h2" THEN "caterer" ELSE "venue"
isVerified(h) == h # "h3"

\* ------------------------------------------------------------ Date arithmetic
\* Days are counted from the 1st of the first month of MonthLen.
MonthLen == <<30, 31, 31, 28, 31, 30, 31, 30>>

RECURSIVE MonthStart(_)
MonthStart(m) == IF m = 1 THEN 0 ELSE MonthStart(m - 1) + MonthLen[m - 1]

MonthOf(d) == CHOOSE m \in 1..Len(MonthLen) :
                 MonthStart(m) <= d /\ d < MonthStart(m) + MonthLen[m]

\* d.setMonth(d.getMonth() + 3): the same day-of-month three months on; a
\* day-of-month the target month does not have rolls over into the next one.
AddThreeMonths(d) == MonthStart(MonthOf(d) + 3) + (d - MonthStart(MonthOf(d)))

LastDay == FirstDay + MaxTicks


\* ------------------------------------------------------------ state
VARIABLES
  bookings,      \* the Booking collection: id -> document
  nextId,        \* the next fresh booking id
  now,           \* the server's clock, in days
  pc,            \* per worker: "idle", "save" or "notify"
  req,           \* per worker: the request it serves and its loaded document's changes
  last,          \* the response just sent and not yet delivered (NoResp if none)
  paidWrites,    \* per booking: saves that wrote payment.isPaid = true
  paidFanouts,   \* per booking: payment notification fan-outs started
  hosts,         \* the Host collection: the ids of the Host documents in it
  accounts,      \* the User and Host documents created by registration: id -> document
  otpStore,      \* req.app.locals.verificationOTPs: email -> pending codes
  regs,          \* per worker: the registration it is serving (IdleReg if none)
  reply          \* the response of an account handler, not yet delivered

authVars == <<accounts, otpStore, regs, reply>>
bookingVars == <<bookings, nextId, now, pc, req, last, paidWrites, paidFanouts, hosts>>
vars == <<bookings, nextId, now, pc, req, last, paidWrites, paidFanouts, hosts,
          accounts, otpStore, regs, reply>>

NoBooking == [exists |-> FALSE, user |-> Unset, venue |-> Unset, services |-> <<>>,
              isServiceOnly |-> FALSE, startDate |-> NoDate, status |-> Unset, isPaid |-> FALSE,
              transactionId |-> Unset, paymentDate |-> NoDate, paymentMethod |-> Unset]

IdleReq == [op |-> Unset, isHost |-> FALSE, actor |-> Unset, b |-> 0, status |-> Unset,
            tx |-> Unset, method |-> Unset, date |-> NoDate, dirty |-> {},
            venue |-> Unset, services |-> <<>>, startDate |-> NoDate, isPaid |-> FALSE]

\* The listing part of a response: the query it answers, then count, the next
\* and prev pages of pagination (0 if absent) and the ids in data.
NoList == [page |-> Unset, limit |-> Unset, type |-> Unset, count |-> 0, next |-> 0,
           prev |-> 0, data |-> <<>>]

NoResp == [op |-> Unset, step |-> Unset, isHost |-> FALSE, actor |-> Unset, b |-> 0,
           status |-> Unset, tx |-> Unset, code |-> 0, sent |-> 0,
           venue |-> Unset, services |-> <<>>, startDate |-> NoDate, data |-> {},
           method |-> Unset, isPaid |-> FALSE, list |-> NoList]

\* A response: the handler and the step of it that sent it, the request it
\* answers, the HTTP status code and the number of notifications sent before.
\* venue, services and startDate repeat a createBooking request's body; data
\* holds the ids of the bookings a read returns.
Response(op, step, a, b, status, tx, code, sent) ==
  [op |-> op, step |-> step, isHost |-> a.isHost, actor |-> a.id, b |-> b,
   status |-> status, tx |-> tx, code |-> code, sent |-> sent,
   venue |-> Unset, services |-> <<>>, startDate |-> NoDate, data |-> {},
   method |-> Unset, isPaid |-> FALSE, list |-> NoList]

Stripe == [isHost |-> FALSE, id |-> "stripe"]

\* ------------------------------------------------------------ account values
AccountIds == 1..MaxAccounts
Emails == {"a@example.com", "b@example.com"}
Mobiles == {"9000000001", "9000000002"}
\* generateOTP(): a six-digit decimal string
Codes == {"111111", "222222"}
Sentinel == "verified"

NoAccount == [exists |-> FALSE, kind |-> Unset, email |-> Unset, mobileNumber |-> Unset,
              hostType |-> Unset, emailVerified |-> FALSE, mobileVerified |-> FALSE,
              isVerified |-> FALSE]

\* No entry under an email of verificationOTPs.
NoOTP == [emailOTP |-> Unset, mobileOTP |-> Unset, otherOTP |-> Unset,
          userId |-> 0, hostId |-> 0]

IdleReg == [kind |-> Unset, email |-> Unset, mobileNumber |-> Unset, hostType |-> Unset]

NoReply == [op |-> Unset, code |-> 0, error |-> Unset, kind |-> Unset, email |-> Unset,
            mobileNumber |-> Unset, type |-> Unset, otp |-> Unset, actor |-> 0, id |-> 0]

AuthInit ==
  /\ accounts = [a \in AccountIds |-> NoAccount]
  /\ otpStore = [e \in Emails |-> NoOTP]
  /\ regs = [p \in Procs |-> IdleReg]
  /\ reply = NoReply

Init ==
  /\ bookings = [b \in BookingIds |-> NoBooking]
  /\ nextId = 1
  /\ now = FirstDay
  /\ pc = [p \in Procs |-> "idle"]
  /\ req = [p \in Procs |-> IdleReq]
  /\ last = NoResp
  /\ paidWrites = [b \in BookingIds |-> 0]
  /\ paidFanouts = [b \in BookingIds |-> 0]
  /\ hosts = Hosts
  /\ AuthInit

\* One step of a handler runs at a time, after the previous response has left.
Running == last = NoResp

\* A request goes to the first idle worker; in sequential runs it is taken only
\* when no other request is being served.
CanBegin(p, seq) ==
  /\ Running
  /\ pc[p] = "idle"
  /\ \A q \in Procs : q < p => pc[q] # "idle"
  /\ seq => \A q \in Procs : pc[q] = "idle"

\* The response leaves the server and the event loop takes the next event.
Deliver ==
  /\ last # NoResp
  /\ last' = NoResp
  /\ UNCHANGED <<authVars, hosts, bookings, nextId, now, pc, req, paidWrites, paidFanouts>>

\* res.status(code).json(...): the response ends the request.
Respond(p, r) ==
  /\ last' = r
  /\ pc' = [pc EXCEPT ![p] = "idle"]
  /\ req' = [req EXCEPT ![p] = IdleReq]

\* ------------------------------------------------------------ Booking model
\* BookingSchema.pre('save'): rejects the save when startDate is later than
\* three months after the moment of the save.
preSaveRejects(bk, t) == bk.startDate > AddThreeMonths(t)

\* Schema validation run by save(): payment.paymentMethod is required.
validationFails(r) == "paymentMethod" \in r.dirty /\ r.method = Unset

\* save() writes the modified paths of the loaded document, and only those.
savedDoc(bk, r) ==
  [bk EXCEPT
     !.status = IF "status" \in r.dirty THEN r.status ELSE @,
     !.isPaid = IF "isPaid" \in r.dirty THEN TRUE ELSE @,
     !.transactionId = IF "transactionId" \in r.dirty THEN r.tx ELSE @,
     !.paymentDate = IF "paymentDate" \in r.dirty THEN r.date ELSE @,
     !.paymentMethod = IF "paymentMethod" \in r.dirty THEN r.method ELSE @]

providers(bk) == [i \in 1..Len(bk.services) |-> bk.services[i].serviceProvider]

isVenueOwner(bk, h) == bk.venue # Unset /\ bk.venue = h
isServiceProvider(bk, h) == \E i \in 1..Len(bk.services) : bk.services[i].serviceProvider = h


\* ------------------------------------------------------------ middleware
\* authorize(...roles): a Host passes only if 'host' is listed, a User only
\* if its role is listed.
authorize(a, roles) == IF a.isHost THEN "host" \in roles ELSE role(a.id) \in roles

\* protect leaves req.host null when the token's Host document has been removed;
\* reading req.host.id then throws.
hostGone(a) == a.isHost /\ a.id \notin hosts

\* ------------------------------------------------------------ identifiers
\* An id of the request that does not parse as an ObjectId.
BadId == 0 - 2
BadHostId == "not-an-id"
BookingInputs == BookingIds \cup {BadId}

\* Booking.findById(id): the document, or none; for an id that does not parse
\* the query throws a CastError instead (see lookupCode).
findById(b) == IF b = BadId THEN NoBooking ELSE bookings[b]

\* The catch block of a handler: the four handlers that test err.name ===
\* 'CastError' answer 404, the others 500.
catchCastError(op) ==
  IF op \in {"getBooking", "updateBookingStatus", "deleteBooking", "getPaymentDetails"}
  THEN 404 ELSE 500

\* The outcome of a handler's checks when its findById is given id b: the
\* checks before the lookup answer as always; a lookup that would have found
\* nothing (404) throws for an id that does not parse.
lookupCode(op, b, code) == IF b = BadId /\ code = 404 THEN catchCastError(op) ELSE code

\* ------------------------------------------------------------ createBooking
\* req.body.services: none, one entry, the same provider in two entries, an
\* entry whose serviceType is not its provider's hostType, and an entry whose
\* provider id does not parse.
ServiceLists ==
  {<<>>,
   <<[serviceProvider |-> BadHostId, serviceType |-> "catering"]>>,
   <<[serviceProvider |-> "h2", serviceType |-> "catering"]>>,
   <<[serviceProvider |-> "h2", serviceType |-> "catering"],
     [serviceProvider |-> "h2", serviceType |-> "catering"]>>,
   <<[serviceProvider |-> "h2", serviceType |-> "decoration"]>>}
\* req.body.venue: absent, a verified venue, a caterer, an unverified venue, an
\* id that does not parse.
VenueInputs == {Unset, BadHostId} \cup Hosts
\* req.body.status, which createBooking does not read.
BodyStatuses == {Unset, "confirmed"}
\* req.body.payment: isPaid and transactionId absent, or given.
PaymentBodies == {[isPaid |-> FALSE, transactionId |-> Unset],
                  [isPaid |-> TRUE, transactionId |-> "tx1"]}
StartDates == {FirstDay + 10, AddThreeMonths(FirstDay), AddThreeMonths(FirstDay) + 1}

providerType(serviceType) ==
  IF serviceType = "catering" THEN "caterer"
  ELSE IF serviceType = "decoration" THEN "decorator" ELSE "organizer"

\* Host.findOne({_id, hostType, isVerified: true})
hostExists(h, type) == h \in hosts /\ hostType(h) = type /\ isVerified(h)

\* The first entry of services whose lookup does not find a Host (0 if none).
firstFailing(services) ==
  LET failing == {i \in 1..Len(services) :
                    ~hostExists(services[i].serviceProvider,
                                providerType(services[i].serviceType))} IN
  IF failing = {} THEN 0 ELSE CHOOSE i \in failing : \A j \in failing : i <= j

\* Mutant: the service providers are not looked up.
createBookingChecks_noProviderLookup(a, venue, services, startDate, t) ==
  IF ~authorize(a, {"user"}) THEN 403
  ELSE IF a.isHost THEN 403
  ELSE IF venue = BadHostId THEN catchCastError("createBooking")
  ELSE IF venue # Unset /\ ~hostExists(venue, "venue") THEN 404
  ELSE IF startDate > AddThreeMonths(t) THEN 400
  ELSE 0

\* The checks of createBooking before Booking.create; 0 when all pass.
createBookingChecks(a, venue, services, startDate, t) ==
  IF ~authorize(a, {"user"}) THEN 403
  ELSE IF a.isHost THEN 403
  ELSE IF venue = BadHostId THEN catchCastError("createBooking")
  ELSE IF venue # Unset /\ ~hostExists(venue, "venue") THEN 404
  ELSE IF firstFailing(services) # 0
       THEN IF services[firstFailing(services)].serviceProvider = BadHostId
            THEN catchCastError("createBooking") ELSE 404
  ELSE IF startDate > AddThreeMonths(t) THEN 400
  ELSE 0

\* Mutant: the status of the request body is stored.
newBooking_bodyStatus(r) ==
  [exists |-> TRUE, user |-> r.actor, venue |-> r.venue, services |-> r.services,
   isServiceOnly |-> (r.venue = Unset /\ Len(r.services) > 0),
   startDate |-> r.startDate,
   status |-> IF r.status # Unset THEN r.status ELSE "pending", isPaid |-> r.isPaid,
   transactionId |-> r.tx, paymentDate |-> NoDate, paymentMethod |-> "bank_transfer"]

\* Mutant: isServiceOnly is set whenever no venue is given.
newBooking_noVenueOnly(r) ==
  [exists |-> TRUE, user |-> r.actor, venue |-> r.venue, services |-> r.services,
   isServiceOnly |-> (r.venue = Unset),
   startDate |-> r.startDate, status |-> "pending", isPaid |-> r.isPaid,
   transactionId |-> r.tx, paymentDate |-> NoDate, paymentMethod |-> "bank_transfer"]

\* The document createBooking hands to Booking.create: payment is the
\* request body's payment object.
newBooking(r) ==
  [exists |-> TRUE, user |-> r.actor, venue |-> r.venue, services |-> r.services,
   isServiceOnly |-> (r.venue = Unset /\ Len(r.services) > 0),
   startDate |-> r.startDate, status |-> "pending", isPaid |-> r.isPaid,
   transactionId |-> r.tx, paymentDate |-> NoDate, paymentMethod |-> "bank_transfer"]

\* Creations that have passed the checks and not yet inserted their document.
creating == {q \in Procs : pc[q] = "save" /\ req[q].op = "createBooking"}

\* A response of createBooking that repeats the request body it answers.
CreateResponse(step, a, venue, services, startDate, status, code) ==
  [Response("createBooking", step, a, 0, status, Unset, code, 0)
     EXCEPT !.venue = venue, !.services = services, !.startDate = startDate]

createBooking(p, seq) ==
  /\ CanBegin(p, seq)
  /\ nextId + Cardinality(creating) <= MaxBookings
  /\ \E a \in Actors, venue \in VenueInputs, services \in ServiceLists,
        startDate \in StartDates, status \in BodyStatuses, payment \in PaymentBodies :
       LET code == createBookingChecks(a, venue, services, startDate, now) IN
       IF code # 0
       THEN /\ Respond(p, CreateResponse("begin", a, venue, services, startDate, status, code))
       ELSE /\ pc' = [pc EXCEPT ![p] = "save"]
            /\ req' = [req EXCEPT ![p] =
                         [IdleReq EXCEPT !.op = "createBooking", !.actor = a.id,
                                         !.venue = venue, !.services = services,
                                         !.startDate = startDate, !.status = status,
                                         !.isPaid = payment.isPaid,
                                         !.tx = payment.transactionId]]
            /\ last' = NoResp
  /\ UNCHANGED <<authVars, hosts, bookings, nextId, now, paidWrites, paidFanouts>>

actorOf(r) == [isHost |-> r.isHost, id |-> r.actor]

\* venue is required unless isServiceOnly
venueMissing(bk) == bk.venue = Unset /\ ~bk.isServiceOnly

\* Booking.create: validation, the pre('save') hook, then the insert.
createBooking_save(p) ==
  /\ Running /\ pc[p] = "save" /\ req[p].op = "createBooking"
  /\ LET r == req[p]
         doc == newBooking(r) IN
     IF venueMissing(doc)
     THEN /\ Respond(p, CreateResponse("save", actorOf(r), r.venue, r.services,
                                       r.startDate, r.status, 400))
          /\ UNCHANGED <<bookings, nextId>>
     ELSE IF preSaveRejects(doc, now)
     THEN /\ Respond(p, CreateResponse("save", actorOf(r), r.venue, r.services,
                                       r.startDate, r.status, 500))
          /\ UNCHANGED <<bookings, nextId>>
     ELSE /\ bookings' = [bookings EXCEPT ![nextId] = doc]
          /\ nextId' = nextId + 1
          /\ pc' = [pc EXCEPT ![p] = "notify"]
          /\ req' = [req EXCEPT ![p] = [IdleReq EXCEPT !.op = r.op, !.actor = r.actor,
                                                       !.b = nextId, !.status = r.status]]
          /\ last' = NoResp
  /\ UNCHANGED <<authVars, hosts, now, paidWrites, paidFanouts>>

\* ------------------------------------------------------------ notifications
venuePart(bk) == IF bk.venue # Unset THEN <<bk.venue>> ELSE <<>>

\* Whom a handler notifies, in the order of its sends.
recipients(op, bk, status) ==
  IF op = "updateBookingStatus" /\ status \notin {"cancelled", "completed"}
  THEN <<bk.user>>
  ELSE <<bk.user>> \o venuePart(bk) \o providers(bk)

\* One email and one SMS per recipient.
numSends(op, bk, status) == 2 * Len(recipients(op, bk, status))

\* The sends that can be reached: Host.findById of a removed Host gives null,
\* and reading its email throws before anything is sent to it.
maxSent(op, bk, status) ==
  LET rc == recipients(op, bk, status)
      gone == {i \in 2..Len(rc) : rc[i] \notin hosts} IN
  IF gone = {} THEN 2 * Len(rc)
  ELSE 2 * ((CHOOSE i \in gone : \A j \in gone : i <= j) - 1)

\* The fan-out of createBooking, then the save of the delivery flags.
createBooking_notify(p) ==
  /\ Running /\ pc[p] = "notify" /\ req[p].op = "createBooking"
  /\ LET r == req[p]
         bk == bookings[r.b]
         n == numSends(r.op, bk, Unset) IN
     \E k \in 0..maxSent(r.op, bk, Unset) :
       Respond(p, Response(r.op, "notify", actorOf(r), r.b, r.status, Unset,
                           IF k < n \/ preSaveRejects(bk, now) THEN 500 ELSE 201, k))
  /\ UNCHANGED <<authVars, hosts, bookings, nextId, now, paidWrites, paidFanouts>>


\* ------------------------------------------------------------ updateBookingStatus
StatusInputs == {"confirmed", "cancelled", "completed", "pending", Unset}

\* Mutant: the owning User may request any valid status.
updateBookingStatusChecks_noRoleLimit(bk, a, status) ==
  IF status = Unset \/ status \notin {"confirmed", "cancelled", "completed"} THEN 400
  ELSE IF ~bk.exists THEN 404
  ELSE IF a.isHost
       THEN (IF hostGone(a) /\ (bk.venue # Unset \/ Len(bk.services) > 0) THEN 500
             ELSE IF ~isVenueOwner(bk, a.id) /\ ~isServiceProvider(bk, a.id) THEN 401
             ELSE 0)
  ELSE IF bk.user # a.id THEN 401
  ELSE 0

\* Mutant: 'pending' is accepted as a target status.
updateBookingStatusChecks_pendingAllowed(bk, a, status) ==
  IF status = Unset \/ status \notin {"pending", "confirmed", "cancelled", "completed"} THEN 400
  ELSE IF ~bk.exists THEN 404
  ELSE IF a.isHost
       THEN (IF hostGone(a) /\ (bk.venue # Unset \/ Len(bk.services) > 0) THEN 500
             ELSE IF ~isVenueOwner(bk, a.id) /\ ~isServiceProvider(bk, a.id) THEN 401
             ELSE 0)
  ELSE IF bk.user # a.id THEN 401
  ELSE IF status # "cancelled" THEN 403
  ELSE 0

\* The checks of updateBookingStatus up to the status assignment; 0 when all pass.
updateBookingStatusChecks(bk, a, status) ==
  IF status = Unset \/ status \notin {"confirmed", "cancelled", "completed"} THEN 400
  ELSE IF ~bk.exists THEN 404
  ELSE IF a.isHost
       THEN (IF hostGone(a) /\ (bk.venue # Unset \/ Len(bk.services) > 0) THEN 500
             ELSE IF ~isVenueOwner(bk, a.id) /\ ~isServiceProvider(bk, a.id) THEN 401
             ELSE 0)
  ELSE IF bk.user # a.id THEN 401
  ELSE IF status # "cancelled" THEN 403
  ELSE 0

\* booking.status = status marks the path modified when the value differs.
statusChange(bk, status) == IF bk.status # status THEN {"status"} ELSE {}

updateBookingStatus(p, seq) ==
  /\ CanBegin(p, seq)
  /\ \E a \in Actors, b \in BookingInputs, status \in StatusInputs :
       LET code == lookupCode("updateBookingStatus", b,
                             updateBookingStatusChecks(findById(b), a, status)) IN
       IF code # 0
       THEN Respond(p, Response("updateBookingStatus", "begin", a, b, status, Unset, code, 0))
       ELSE /\ pc' = [pc EXCEPT ![p] = "save"]
            /\ req' = [req EXCEPT ![p] =
                         [IdleReq EXCEPT !.op = "updateBookingStatus", !.isHost = a.isHost,
                                         !.actor = a.id, !.b = b, !.status = status,
                                         !.dirty = statusChange(bookings[b], status)]]
            /\ last' = NoResp
  /\ UNCHANGED <<authVars, hosts, bookings, nextId, now, paidWrites, paidFanouts>>

updateBookingStatus_save(p) ==
  /\ Running /\ pc[p] = "save" /\ req[p].op = "updateBookingStatus"
  /\ LET r == req[p] IN
     IF preSaveRejects(bookings[r.b], now)
     THEN /\ Respond(p, Response(r.op, "save", actorOf(r), r.b, r.status, Unset, 500, 0))
          /\ UNCHANGED bookings
     ELSE /\ bookings' = [bookings EXCEPT ![r.b] = savedDoc(@, r)]
          /\ pc' = [pc EXCEPT ![p] = "notify"]
          /\ UNCHANGED req
          /\ last' = NoResp
  /\ UNCHANGED <<authVars, hosts, nextId, now, paidWrites, paidFanouts>>

\* Mutant: a failed send puts the booking back to pending.
updateBookingStatus_notify_rollback(p) ==
  /\ Running /\ pc[p] = "notify" /\ req[p].op = "updateBookingStatus"
  /\ LET r == req[p]
         n == numSends(r.op, bookings[r.b], r.status) IN
     \E k \in 0..maxSent(r.op, bookings[r.b], r.status) :
       /\ Respond(p, Response(r.op, "notify", actorOf(r), r.b, r.status, Unset,
                              IF k < n THEN 500 ELSE 200, k))
       /\ bookings' = IF k < n THEN [bookings EXCEPT ![r.b].status = "pending"]
                      ELSE bookings
  /\ UNCHANGED <<authVars, hosts, nextId, now, paidWrites, paidFanouts>>

\* The fan-out of updateBookingStatus and its response.
updateBookingStatus_notify(p) ==
  /\ Running /\ pc[p] = "notify" /\ req[p].op = "updateBookingStatus"
  /\ LET r == req[p]
         n == numSends(r.op, bookings[r.b], r.status) IN
     \E k \in 0..maxSent(r.op, bookings[r.b], r.status) :
       Respond(p, Response(r.op, "notify", actorOf(r), r.b, r.status, Unset,
                           IF k < n THEN 500 ELSE 200, k))
  /\ UNCHANGED <<authVars, hosts, bookings, nextId, now, paidWrites, paidFanouts>>

\* ------------------------------------------------------------ confirmPayment
Methods == {"upi", "online_payment", Unset}

\* Mutant: the 'already paid' check is missing.
confirmPaymentChecks_noPaidCheck(bk, a) ==
  IF ~authorize(a, {"user"}) THEN 403
  ELSE IF a.isHost THEN 403
  ELSE IF ~bk.exists THEN 404
  ELSE IF bk.user # a.id THEN 401
  ELSE 0

\* Mutant: the ownership check is missing.
confirmPaymentChecks_noOwnerCheck(bk, a) ==
  IF ~authorize(a, {"user"}) THEN 403
  ELSE IF a.isHost THEN 403
  ELSE IF ~bk.exists THEN 404
  ELSE IF bk.isPaid THEN 400
  ELSE 0

\* authorize('user') and the checks of confirmPayment; 0 when all pass.
confirmPaymentChecks(bk, a) ==
  IF ~authorize(a, {"user"}) THEN 403
  ELSE IF a.isHost THEN 403
  ELSE IF ~bk.exists THEN 404
  ELSE IF bk.user # a.id THEN 401
  ELSE IF bk.isPaid THEN 400
  ELSE 0

\* The paths the payment assignments modify on the loaded document.
paymentChanges(bk, tx, date, method) ==
  (IF ~bk.isPaid THEN {"isPaid"} ELSE {})
  \cup (IF bk.transactionId # tx THEN {"transactionId"} ELSE {})
  \cup (IF bk.paymentDate # date THEN {"paymentDate"} ELSE {})
  \cup (IF bk.paymentMethod # method THEN {"paymentMethod"} ELSE {})
  \cup statusChange(bk, "confirmed")

confirmPayment(p, seq) ==
  /\ CanBegin(p, seq)
  /\ \E a \in Actors, b \in BookingInputs, tx \in TxIds, method \in Methods :
       LET code == lookupCode("confirmPayment", b,
                             confirmPaymentChecks(findById(b), a)) IN
       IF code # 0
       THEN Respond(p, Response("confirmPayment", "begin", a, b, Unset, tx, code, 0))
       ELSE /\ pc' = [pc EXCEPT ![p] = "save"]
            /\ req' = [req EXCEPT ![p] =
                         [IdleReq EXCEPT !.op = "confirmPayment", !.isHost = a.isHost,
                                         !.actor = a.id, !.b = b, !.status = "confirmed",
                                         !.tx = tx, !.method = method, !.date = now,
                                         !.dirty = paymentChanges(bookings[b], tx, now, method)]]
            /\ last' = NoResp
  /\ UNCHANGED <<authVars, hosts, bookings, nextId, now, paidWrites, paidFanouts>>

confirmPayment_save(p) ==
  /\ Running /\ pc[p] = "save" /\ req[p].op = "confirmPayment"
  /\ LET r == req[p] IN
     IF validationFails(r) \/ preSaveRejects(bookings[r.b], now)
     THEN /\ Respond(p, Response(r.op, "save", actorOf(r), r.b, Unset, r.tx, 500, 0))
          /\ UNCHANGED <<bookings, paidWrites>>
     ELSE /\ bookings' = [bookings EXCEPT ![r.b] = savedDoc(@, r)]
          /\ paidWrites' = [paidWrites EXCEPT ![r.b] = @ + 1]
          /\ pc' = [pc EXCEPT ![p] = "notify"]
          /\ UNCHANGED req
          /\ last' = NoResp
  /\ UNCHANGED <<authVars, hosts, nextId, now, paidFanouts>>

confirmPayment_notify(p) ==
  /\ Running /\ pc[p] = "notify" /\ req[p].op = "confirmPayment"
  /\ LET r == req[p]
         n == numSends(r.op, bookings[r.b], Unset) IN
     \E k \in 0..maxSent(r.op, bookings[r.b], Unset) :
       Respond(p, Response(r.op, "notify", actorOf(r), r.b, Unset, r.tx,
                           IF k < n THEN 500 ELSE 200, k))
  /\ paidFanouts' = [paidFanouts EXCEPT ![req[p].b] = @ + 1]
  /\ UNCHANGED <<authVars, hosts, bookings, nextId, now, paidWrites>>

\* ------------------------------------------------------------ createPaymentIntent
\* Mutant: the requested payment method is not looked at.
createPaymentIntentChecks_anyMethod(bk, a, method) ==
  IF ~authorize(a, {"user"}) THEN 403
  ELSE IF a.isHost THEN 403
  ELSE IF ~bk.exists THEN 404
  ELSE IF bk.user # a.id THEN 401
  ELSE IF bk.isPaid THEN 400
  ELSE 0

\* authorize('user') on the route and the checks of createPaymentIntent before
\* the provider is called; 0 when all pass.
createPaymentIntentChecks(bk, a, method) ==
  IF ~authorize(a, {"user"}) THEN 403
  ELSE IF a.isHost THEN 403
  ELSE IF ~bk.exists THEN 404
  ELSE IF bk.user # a.id THEN 401
  ELSE IF bk.isPaid THEN 400
  ELSE IF method # "online_payment" THEN 400
  ELSE 0

\* A response of createPaymentIntent: step "stripe" when
\* stripe.paymentIntents.create was called, tx the intent it returned.
IntentResponse(step, a, b, method, pi, code) ==
  [Response("createPaymentIntent", step, a, b, Unset, pi, code, 0) EXCEPT !.method = method]

\* One step: no document is written, the intent is created at the provider,
\* which answers or fails.
createPaymentIntent(p, seq) ==
  /\ CanBegin(p, seq)
  /\ \E a \in Actors, b \in BookingInputs, method \in Methods :
       LET code == lookupCode("createPaymentIntent", b,
                              createPaymentIntentChecks(findById(b), a, method)) IN
       IF code # 0
       THEN Respond(p, IntentResponse("begin", a, b, method, Unset, code))
       ELSE \E pi \in IntentIds \cup {Unset} :
              Respond(p, IntentResponse("stripe", a, b, method, pi,
                                        IF pi = Unset THEN 500 ELSE 200))
  /\ UNCHANGED <<authVars, hosts, bookings, nextId, now, paidWrites, paidFanouts>>

\* ------------------------------------------------------------ stripeWebhook
EventTypes == {"payment_intent.succeeded", "charge.refunded"}

\* Mutant: a booking is marked paid whether or not it already is.
stripeWebhookChecks_noPaidCheck(sigOk, type, bookingId) ==
  IF ~sigOk THEN 400
  ELSE IF type # "payment_intent.succeeded" THEN 200
  ELSE IF bookingId = 0 THEN 200
  ELSE IF bookings[bookingId].exists THEN 0
  ELSE 200

\* What stripeWebhook does with an event before any save: 400 on a bad
\* signature, 200 when there is nothing to do, 0 when the booking is to be
\* marked paid.  bookingId 0 stands for metadata without a bookingId.
stripeWebhookChecks(sigOk, type, bookingId) ==
  IF ~sigOk THEN 400
  ELSE IF type # "payment_intent.succeeded" THEN 200
  ELSE IF bookingId = 0 THEN 200
  ELSE IF bookings[bookingId].exists /\ ~bookings[bookingId].isPaid THEN 0
  ELSE 200

stripeWebhook(p, seq) ==
  /\ CanBegin(p, seq)
  /\ \E sigOk \in BOOLEAN, type \in EventTypes, b \in BookingIds \cup {0}, pi \in IntentIds :
       LET code == stripeWebhookChecks(sigOk, type, b) IN
       IF code # 0
       THEN Respond(p, Response("stripeWebhook", "begin", Stripe, b,
                                IF sigOk THEN type ELSE Unset, pi, code, 0))
       ELSE /\ pc' = [pc EXCEPT ![p] = "save"]
            /\ req' = [req EXCEPT ![p] =
                         [IdleReq EXCEPT !.op = "stripeWebhook", !.actor = Stripe.id, !.b = b,
                                         !.status = "confirmed", !.tx = pi, !.date = now,
                                         !.method = bookings[b].paymentMethod,
                                         !.dirty = paymentChanges(bookings[b], pi, now,
                                                                  bookings[b].paymentMethod)]]
            /\ last' = NoResp
  /\ UNCHANGED <<authVars, hosts, bookings, nextId, now, paidWrites, paidFanouts>>

\* A failed save is caught and logged; the event is acknowledged either way.
stripeWebhook_save(p) ==
  /\ Running /\ pc[p] = "save" /\ req[p].op = "stripeWebhook"
  /\ LET r == req[p] IN
     /\ Respond(p, Response(r.op, "save", Stripe, r.b, "payment_intent.succeeded", r.tx, 200, 0))
     /\ IF preSaveRejects(bookings[r.b], now)
        THEN UNCHANGED <<bookings, paidWrites>>
        ELSE /\ bookings' = [bookings EXCEPT ![r.b] = savedDoc(@, r)]
             /\ paidWrites' = [paidWrites EXCEPT ![r.b] = @ + 1]
  /\ UNCHANGED <<authVars, hosts, nextId, now, paidFanouts>>

\* ------------------------------------------------------------ reads
\* The authorization test of getBooking: the conjunction of the User's test
\* and the Host's test, as the code writes it.
getBookingChecks(bk, a) ==
  IF ~bk.exists THEN 404
  ELSE IF /\ (~a.isHost /\ bk.user # a.id)
          /\ (a.isHost /\ bk.venue # a.id /\ ~isServiceProvider(bk, a.id))
       THEN 401
  ELSE 200

\* A response of a read: data holds the ids of the bookings it returns.
ReadResponse(op, a, b, status, code, data) ==
  [Response(op, "begin", a, b, status, Unset, code, 0) EXCEPT !.data = data]

getBooking(p, seq) ==
  /\ CanBegin(p, seq)
  /\ \E a \in Actors, b \in BookingInputs :
       LET code == lookupCode("getBooking", b,
                             getBookingChecks(findById(b), a)) IN
       Respond(p, ReadResponse("getBooking", a, b, Unset, code,
                               IF code = 200 THEN {b} ELSE {}))
  /\ UNCHANGED <<authVars, hosts, bookings, nextId, now, paidWrites, paidFanouts>>

\* The authorization test of getPaymentDetails, written like getBooking's.
getPaymentDetailsChecks(bk, a) ==
  IF ~bk.exists THEN 404
  ELSE IF /\ (~a.isHost /\ bk.user # a.id)
          /\ (a.isHost /\ bk.venue # a.id /\ ~isServiceProvider(bk, a.id))
       THEN 401
  ELSE 200

getPaymentDetails(p, seq) ==
  /\ CanBegin(p, seq)
  /\ \E a \in Actors, b \in BookingInputs :
       LET code == lookupCode("getPaymentDetails", b,
                             getPaymentDetailsChecks(findById(b), a)) IN
       Respond(p, ReadResponse("getPaymentDetails", a, b, Unset, code,
                               IF code = 200 THEN {b} ELSE {}))
  /\ UNCHANGED <<authVars, hosts, bookings, nextId, now, paidWrites, paidFanouts>>

\* req.query of getBookings
StatusFilters == {Unset, "pending", "cancelled"}
DateFilters == {NoDate, AddThreeMonths(FirstDay)}
Pages == {1, 2}
Limits == {1, 10}

\* Mutant: the query holds the filters only.
getBookingsQuery_filtersOnly(a, status, startDate) ==
  {b \in BookingIds :
     /\ bookings[b].exists
     /\ startDate # NoDate => bookings[b].startDate >= startDate
     /\ status # Unset => bookings[b].status = status}

\* The query of getBookings: the principal's own bookings, then the filters.
getBookingsQuery(a, status, startDate) ==
  {b \in BookingIds :
     /\ bookings[b].exists
     /\ IF a.isHost
        THEN bookings[b].venue = a.id \/ isServiceProvider(bookings[b], a.id)
        ELSE bookings[b].user = a.id
     /\ startDate # NoDate => bookings[b].startDate >= startDate
     /\ status # Unset => bookings[b].status = status}

\* sort({createdAt: -1}).skip((page - 1) * limit).limit(limit)
getBookingsPage(found, page, limit) ==
  {b \in found :
     LET before == Cardinality({c \in found : c > b}) IN
     (page - 1) * limit <= before /\ before < page * limit}

getBookings(p, seq) ==
  /\ CanBegin(p, seq)
  /\ \E a \in Actors, status \in StatusFilters, startDate \in DateFilters,
        page \in Pages, limit \in Limits :
       IF hostGone(a)
       THEN Respond(p, ReadResponse("getBookings", a, 0, status, 500, {}))
       ELSE Respond(p, ReadResponse("getBookings", a, 0, status, 200,
                      getBookingsPage(getBookingsQuery(a, status, startDate), page, limit)))
  /\ UNCHANGED <<authVars, hosts, bookings, nextId, now, paidWrites, paidFanouts>>

\* ------------------------------------------------------------ listings
\* req.query.page, req.query.limit and req.query.type as the query string holds them
PageQueries == {Unset, "0", "2"}
LimitQueries == {Unset, "1"}
TypeQueries == {Unset, "caterer", "venue"}

NaN == 0 - 1

\* parseInt(s, 10)
parseInt(s) ==
  CASE s = "0" -> 0
    [] s = "1" -> 1
    [] s = "2" -> 2
    [] OTHER -> NaN

\* n || d: NaN and 0 are falsy
orDefault(n, d) == IF n = NaN \/ n = 0 THEN d ELSE n

DefaultPage == 1
DefaultLimit == 10

ProviderTypes == {"caterer", "decorator", "organizer"}

\* The Host collection in its natural order.
HostOrder == <<"h1", "h2", "h3">>

\* Host.find(query): the Hosts whose hostType the query admits.
findHosts(types) == SelectSeq(HostOrder, LAMBDA h : h \in hosts /\ hostType(h) \in types)

Min(x, y) == IF x < y THEN x ELSE y

\* skip(startIndex).limit(limit)
skipLimit(found, startIndex, limit) ==
  SubSeq(found, startIndex + 1, Min(startIndex + limit, Len(found)))

\* The pagination and the body of a listing response.
listing(types, pageQuery, limitQuery) ==
  LET page == orDefault(parseInt(pageQuery), DefaultPage)
      limit == orDefault(parseInt(limitQuery), DefaultLimit)
      startIndex == (page - 1) * limit
      endIndex == page * limit
      total == Len(findHosts(types))
      found == skipLimit(findHosts(types), startIndex, limit) IN
  [NoList EXCEPT !.page = pageQuery, !.limit = limitQuery,
                 !.count = Len(found),
                 !.next = IF endIndex < total THEN page + 1 ELSE 0,
                 !.prev = IF startIndex > 0 THEN page - 1 ELSE 0,
                 !.data = found]

\* The caller of a public route.
Anonymous == [isHost |-> FALSE, id |-> "anonymous"]

ListResponse(op, list) ==
  [Response(op, "begin", Anonymous, 0, Unset, Unset, 200, 0) EXCEPT !.list = list]

getVenues(p, seq) ==
  /\ CanBegin(p, seq)
  /\ \E page \in PageQueries, limit \in LimitQueries :
       Respond(p, ListResponse("getVenues", listing({"venue"}, page, limit)))
  /\ UNCHANGED <<authVars, hosts, bookings, nextId, now, paidWrites, paidFanouts>>

\* query.hostType of getServiceProviders: the three provider types, or the one
\* req.query.type names if it is one of them.
providerQuery(type) == IF type \in ProviderTypes THEN {type} ELSE ProviderTypes

getServiceProviders(p, seq) ==
  /\ CanBegin(p, seq)
  /\ \E type \in TypeQueries, page \in PageQueries, limit \in LimitQueries :
       Respond(p, [ListResponse("getServiceProviders", listing(providerQuery(type), page, limit))
                     EXCEPT !.list.type = type])
  /\ UNCHANGED <<authVars, hosts, bookings, nextId, now, paidWrites, paidFanouts>>

\* ------------------------------------------------------------ deleteBooking
\* Mutant: any principal may delete.
deleteBookingChecks_noRoleCheck(bk, a) ==
  IF ~bk.exists THEN 404 ELSE 0

\* authorize('admin') on the route and the checks of deleteBooking; 0 when all pass.
deleteBookingChecks(bk, a) ==
  IF ~authorize(a, {"admin"}) THEN 403
  ELSE IF ~bk.exists THEN 404
  ELSE IF a.isHost \/ role(a.id) # "admin" THEN 403
  ELSE 0

deleteBooking(p, seq) ==
  /\ CanBegin(p, seq)
  /\ \E a \in Actors, b \in BookingInputs :
       LET code == lookupCode("deleteBooking", b,
                             deleteBookingChecks(findById(b), a)) IN
       IF code # 0
       THEN Respond(p, Response("deleteBooking", "begin", a, b, Unset, Unset, code, 0))
       ELSE /\ pc' = [pc EXCEPT ![p] = "save"]
            /\ req' = [req EXCEPT ![p] =
                         [IdleReq EXCEPT !.op = "deleteBooking", !.isHost = a.isHost,
                                         !.actor = a.id, !.b = b]]
            /\ last' = NoResp
  /\ UNCHANGED <<authVars, hosts, bookings, nextId, now, paidWrites, paidFanouts>>

\* booking.remove()
deleteBooking_remove(p) ==
  /\ Running /\ pc[p] = "save" /\ req[p].op = "deleteBooking"
  /\ bookings' = [bookings EXCEPT ![req[p].b] = NoBooking]
  /\ Respond(p, Response("deleteBooking", "save", actorOf(req[p]), req[p].b,
                         Unset, Unset, 200, 0))
  /\ UNCHANGED <<authVars, hosts, nextId, now, paidWrites, paidFanouts>>

\* ------------------------------------------------------------ deleteVenue
\* authorize('host', 'admin') on the route and the checks of deleteVenue; 0
\* when all pass.
deleteVenueChecks(a, v) ==
  IF ~authorize(a, {"host", "admin"}) THEN 403
  ELSE IF v \notin hosts \/ hostType(v) # "venue" THEN 404
  ELSE IF hostGone(a) THEN 500
  ELSE IF (a.isHost /\ v # a.id) \/ (~a.isHost /\ role(a.id) # "admin") THEN 401
  ELSE 0

deleteVenue(p, seq) ==
  /\ CanBegin(p, seq)
  /\ \E a \in Actors, v \in Hosts :
       LET code == deleteVenueChecks(a, v) IN
       IF code # 0
       THEN Respond(p, [Response("deleteVenue", "begin", a, 0, Unset, Unset, code, 0)
                          EXCEPT !.venue = v])
       ELSE /\ pc' = [pc EXCEPT ![p] = "save"]
            /\ req' = [req EXCEPT ![p] =
                         [IdleReq EXCEPT !.op = "deleteVenue", !.isHost = a.isHost,
                                         !.actor = a.id, !.venue = v]]
            /\ last' = NoResp
  /\ UNCHANGED <<authVars, hosts, bookings, nextId, now, paidWrites, paidFanouts>>

\* venue.remove(): the Host document goes; no booking is touched.
deleteVenue_remove(p) ==
  /\ Running /\ pc[p] = "save" /\ req[p].op = "deleteVenue"
  /\ hosts' = hosts \ {req[p].venue}
  /\ Respond(p, [Response("deleteVenue", "save", actorOf(req[p]), 0, Unset, Unset, 200, 0)
                   EXCEPT !.venue = req[p].venue])
  /\ UNCHANGED <<authVars, bookings, nextId, now, paidWrites, paidFanouts>>

\* ------------------------------------------------------------ accounts
\* Registration, contact verification and Host profile updates.  A
\* registration looks the principal up (findOne) and creates it (create) at
\* separate moments; verifyOTP and the profile updates are one step each.

\* One step of an account handler runs at a time, after the previous response
\* has left.
Quiet == reply = NoReply

\* The response leaves the server.
Answer ==
  /\ reply # NoReply
  /\ reply' = NoReply
  /\ UNCHANGED <<bookingVars, accounts, otpStore, regs>>

Reply(op, code, error) == [NoReply EXCEPT !.op = op, !.code = code, !.error = error]

\* findOne({ $or: [{ email }, { mobileNumber }] }) on the collection of a kind
existing(kind, email, mobile) ==
  \E a \in AccountIds :
    /\ accounts[a].exists /\ accounts[a].kind = kind
    /\ (accounts[a].email = email \/ accounts[a].mobileNumber = mobile)

\* The unique indexes on email and mobileNumber reject a second document.
hostDuplicateKey(email, mobile) == existing("host", email, mobile)
userDuplicateKey(email, mobile) == existing("user", email, mobile)

\* A fresh _id.
freeId == CHOOSE a \in AccountIds :
            ~accounts[a].exists /\ \A x \in AccountIds : x < a => accounts[x].exists

\* Registrations are accepted while ids are left for them.
CanRegister(p) ==
  /\ Quiet
  /\ regs[p] = IdleReg
  /\ \A q \in Procs : q < p => regs[q] # IdleReg
  /\ Cardinality({a \in AccountIds : accounts[a].exists})
       + Cardinality({q \in Procs : regs[q] # IdleReg}) < MaxAccounts

HostTypes == {"venue", "caterer"}

\* The document create() stores: the verification flags take their defaults.
newAccount(r) ==
  [NoAccount EXCEPT !.exists = TRUE, !.kind = r.kind, !.email = r.email,
                    !.mobileNumber = r.mobileNumber, !.hostType = r.hostType]

RegReply(op, r, code, error, id) ==
  [Reply(op, code, error) EXCEPT !.kind = r.kind, !.email = r.email,
                                 !.mobileNumber = r.mobileNumber, !.id = id]

registerUser(p) ==
  /\ CanRegister(p)
  /\ \E email \in Emails, mobile \in Mobiles :
       LET r == [kind |-> "user", email |-> email, mobileNumber |-> mobile,
                 hostType |-> Unset] IN
       IF existing("user", email, mobile)
       THEN /\ reply' = RegReply("registerUser", r, 400,
                          "User with this email or mobile number already exists", 0)
            /\ UNCHANGED regs
       ELSE /\ regs' = [regs EXCEPT ![p] = r]
            /\ UNCHANGED reply
  /\ UNCHANGED <<bookingVars, accounts, otpStore>>

\* User.create, the two generateOTP calls, the write of the codes under the
\* email, the two sends and the response.
registerUser_create(p) ==
  /\ Quiet /\ regs[p].kind = "user"
  /\ LET r == regs[p] IN
     IF userDuplicateKey(r.email, r.mobileNumber)
     THEN /\ reply' = RegReply("registerUser", r, 500, "Server Error", 0)
          /\ UNCHANGED <<accounts, otpStore>>
     ELSE \E emailOTP \in Codes, mobileOTP \in Codes, sent \in BOOLEAN :
            /\ accounts' = [accounts EXCEPT ![freeId] = newAccount(r)]
            /\ otpStore' = [otpStore EXCEPT ![r.email] =
                              [NoOTP EXCEPT !.emailOTP = emailOTP, !.mobileOTP = mobileOTP,
                                            !.userId = freeId]]
            /\ reply' = IF sent THEN RegReply("registerUser", r, 201, Unset, freeId)
                        ELSE RegReply("registerUser", r, 500, "Server Error", freeId)
  /\ regs' = [regs EXCEPT ![p] = IdleReg]
  /\ UNCHANGED bookingVars

registerHost(p) ==
  /\ CanRegister(p)
  /\ \E email \in Emails, mobile \in Mobiles, ht \in HostTypes :
       LET r == [kind |-> "host", email |-> email, mobileNumber |-> mobile,
                 hostType |-> ht] IN
       IF existing("host", email, mobile)
       THEN /\ reply' = RegReply("registerHost", r, 400,
                          "Host with this email or mobile number already exists", 0)
            /\ UNCHANGED regs
       ELSE /\ regs' = [regs EXCEPT ![p] = r]
            /\ UNCHANGED reply
  /\ UNCHANGED <<bookingVars, accounts, otpStore>>

registerHost_create(p) ==
  /\ Quiet /\ regs[p].kind = "host"
  /\ LET r == regs[p] IN
     IF hostDuplicateKey(r.email, r.mobileNumber)
     THEN /\ reply' = RegReply("registerHost", r, 500, "Server Error", 0)
          /\ UNCHANGED <<accounts, otpStore>>
     ELSE \E emailOTP \in Codes, mobileOTP \in Codes, sent \in BOOLEAN :
            /\ accounts' = [accounts EXCEPT ![freeId] = newAccount(r)]
            /\ otpStore' = [otpStore EXCEPT ![r.email] =
                              [NoOTP EXCEPT !.emailOTP = emailOTP, !.mobileOTP = mobileOTP,
                                            !.hostId = freeId]]
            /\ reply' = IF sent THEN RegReply("registerHost", r, 201, Unset, freeId)
                        ELSE RegReply("registerHost", r, 500, "Server Error", freeId)
  /\ regs' = [regs EXCEPT ![p] = IdleReg]
  /\ UNCHANGED bookingVars

\* ---- verifyOTP
Types == {"email", "mobile", "other"}
Otps == Codes \cup {Sentinel}

isValid(rec, otp, type) ==
  IF type = "email" THEN rec.emailOTP = otp ELSE rec.mobileOTP = otp

\* The principal the record names: userId is looked at first.
principalOf(rec) == IF rec.userId # 0 THEN rec.userId ELSE rec.hostId

\* The flags verifyOTP sets on the loaded document before save().
verified_anyChannel(acc, type) ==
  [acc EXCEPT !.emailVerified = IF type = "email" THEN TRUE ELSE @,
              !.mobileVerified = IF type = "email" THEN @ ELSE TRUE,
              !.isVerified = TRUE]

verified(acc, type) ==
  LET d == IF type = "email" THEN [acc EXCEPT !.emailVerified = TRUE]
                             ELSE [acc EXCEPT !.mobileVerified = TRUE]
  IN [d EXCEPT !.isVerified = IF d.emailVerified /\ d.mobileVerified THEN TRUE ELSE @]

\* The entry verifyOTP leaves under the email: none once the other channel's
\* slot holds 'verified', else the record with the slot `${type}OTP` marked.
consumed(rec, type) ==
  IF \/ type = "email" /\ rec.mobileOTP = Sentinel
     \/ type = "mobile" /\ rec.emailOTP = Sentinel
  THEN NoOTP
  ELSE IF type = "email" THEN [rec EXCEPT !.emailOTP = Sentinel]
  ELSE IF type = "mobile" THEN [rec EXCEPT !.mobileOTP = Sentinel]
  ELSE [rec EXCEPT !.otherOTP = Sentinel]

OtpReply(code, error, email, otp, type, id) ==
  [Reply("verifyOTP", code, error) EXCEPT !.email = email, !.otp = otp, !.type = type,
                                          !.id = id]

verifyOTP ==
  /\ Quiet
  /\ \E email \in Emails, otp \in Otps, type \in Types :
       LET rec == otpStore[email] IN
       IF rec = NoOTP
       THEN /\ reply' = OtpReply(400, "Invalid or expired OTP", email, otp, type, 0)
            /\ UNCHANGED <<accounts, otpStore>>
       ELSE IF ~isValid(rec, otp, type)
       THEN /\ reply' = OtpReply(400, "Invalid OTP", email, otp, type, 0)
            /\ UNCHANGED <<accounts, otpStore>>
       ELSE /\ accounts' = [accounts EXCEPT ![principalOf(rec)] = verified(@, type)]
            /\ otpStore' = [otpStore EXCEPT ![email] = consumed(rec, type)]
            /\ reply' = OtpReply(200, Unset, email, otp, type, principalOf(rec))
  /\ UNCHANGED <<bookingVars, regs>>

\* ---- Host profile updates
\* A request body: the paths it names and their values.
NoBody == [paths |-> {}, hostType |-> Unset, isVerified |-> FALSE, emailVerified |-> FALSE,
           mobileVerified |-> FALSE]

\* Request bodies: profile fields only, a hostType, and verification flags.
ProfileBodies ==
  { NoBody,
    [NoBody EXCEPT !.paths = {"hostType"}, !.hostType = "caterer"],
    [NoBody EXCEPT !.paths = {"isVerified"}, !.isVerified = TRUE],
    [NoBody EXCEPT !.paths = {"emailVerified", "mobileVerified"},
                   !.emailVerified = TRUE, !.mobileVerified = TRUE] }

\* findByIdAndUpdate(id, body): every path of the schema the body names is set.
updated(acc, body) ==
  [acc EXCEPT !.hostType = IF "hostType" \in body.paths THEN body.hostType ELSE @,
              !.isVerified = IF "isVerified" \in body.paths THEN body.isVerified ELSE @,
              !.emailVerified = IF "emailVerified" \in body.paths THEN body.emailVerified ELSE @,
              !.mobileVerified = IF "mobileVerified" \in body.paths THEN body.mobileVerified ELSE @]

\* The principals a token can name.
Callers == {a \in AccountIds : accounts[a].exists}

ProfileReply(op, code, actor, id) == [Reply(op, code, Unset) EXCEPT !.actor = actor, !.id = id]

createVenue ==
  /\ Quiet
  /\ \E a \in Callers, body \in ProfileBodies :
       IF accounts[a].kind # "host"
       THEN /\ reply' = ProfileReply("createVenue", 403, a, a)
            /\ UNCHANGED accounts
       ELSE /\ accounts' = [accounts EXCEPT ![a] = updated([@ EXCEPT !.hostType = "venue"], body)]
            /\ reply' = ProfileReply("createVenue", 201, a, a)
  /\ UNCHANGED <<bookingVars, otpStore, regs>>

\* The checks of updateVenue and updateServiceProvider before the update:
\* 0 when they pass, else the status code.
updateChecks(a, id, types) ==
  IF accounts[a].kind # "host" THEN 403
  ELSE IF ~accounts[id].exists \/ accounts[id].kind # "host"
          \/ accounts[id].hostType \notin types THEN 404
  ELSE IF id # a THEN 401
  ELSE 0

updateVenue ==
  /\ Quiet
  /\ \E a \in Callers, id \in AccountIds, body \in ProfileBodies :
       LET code == updateChecks(a, id, {"venue"}) IN
       IF code # 0
       THEN /\ reply' = ProfileReply("updateVenue", code, a, id)
            /\ UNCHANGED accounts
       ELSE /\ accounts' = [accounts EXCEPT ![id] = updated(@, body)]
            /\ reply' = ProfileReply("updateVenue", 200, a, id)
  /\ UNCHANGED <<bookingVars, otpStore, regs>>

updateServiceProvider ==
  /\ Quiet
  /\ \E a \in Callers, id \in AccountIds, body \in ProfileBodies :
       LET code == updateChecks(a, id, {"caterer", "decorator", "organizer"}) IN
       IF code # 0
       THEN /\ reply' = ProfileReply("updateServiceProvider", code, a, id)
            /\ UNCHANGED accounts
       ELSE /\ accounts' = [accounts EXCEPT ![id] = updated(@, body)]
            /\ reply' = ProfileReply("updateServiceProvider", 200, a, id)
  /\ UNCHANGED <<bookingVars, otpStore, regs>>

AccountHandlers(p) ==
  \/ registerUser(p)
  \/ registerUser_create(p)
  \/ registerHost(p)
  \/ registerHost_create(p)

\* ------------------------------------------------------------ time
Tick ==
  /\ Running
  /\ now < LastDay
  /\ now' = now + 1
  /\ last' = NoResp
  /\ UNCHANGED <<authVars, hosts, bookings, nextId, pc, req, paidWrites, paidFanouts>>

\* ------------------------------------------------------------ specifications
Handlers(p, seq) ==
  \/ createBooking(p, seq)
  \/ createBooking_save(p)
  \/ createBooking_notify(p)
  \/ updateBookingStatus(p, seq)
  \/ updateBookingStatus_save(p)
  \/ updateBookingStatus_notify(p)
  \/ confirmPayment(p, seq)
  \/ confirmPayment_save(p)
  \/ confirmPayment_notify(p)
  \/ stripeWebhook(p, seq)
  \/ stripeWebhook_save(p)
  \/ getBooking(p, seq)
  \/ getPaymentDetails(p, seq)
  \/ getBookings(p, seq)
  \/ deleteBooking(p, seq)
  \/ deleteBooking_remove(p)
  \/ deleteVenue(p, seq)
  \/ deleteVenue_remove(p)
  \/ getVenues(p, seq)
  \/ getServiceProviders(p, seq)
  \/ createPaymentIntent(p, seq)

\* The handlers that create a booking and record its payment.
PaymentHandlers(p) ==
  \/ createBooking(p, FALSE)
  \/ createBooking_save(p)
  \/ createBooking_notify(p)
  \/ confirmPayment(p, FALSE)
  \/ confirmPayment_save(p)
  \/ confirmPayment_notify(p)
  \/ stripeWebhook(p, FALSE)
  \/ stripeWebhook_save(p)

Next == Tick \/ Deliver \/ \E p \in Procs : Handlers(p, FALSE)
NextSeq == Tick \/ Deliver \/ \E p \in Procs : Handlers(p, TRUE)
NextPayments == Tick \/ Deliver \/ \E p \in Procs : PaymentHandlers(p)

\* Requests interleave at their awaits.
Spec == Init /\ [][Next]_vars
\* Requests are served one after the other.
SeqSpec == Init /\ [][NextSeq]_vars
\* Requests of the payment handlers interleave at their awaits.
PaymentSpec == Init /\ [][NextPayments]_vars

NextAccounts ==
  \/ Answer
  \/ verifyOTP
  \/ createVenue
  \/ updateVenue
  \/ updateServiceProvider
  \/ \E p \in Procs : AccountHandlers(p)

\* Registrations interleave at their awaits with each other and with the
\* verification and profile requests.
AccountSpec == Init /\ [][NextAccounts]_vars



\* The step being taken is the save of worker p's request.
SaveStep(p, op) == pc[p] = "save" /\ req[p].op = op /\ pc'[p] # "save"

\* The step being taken is a save that wrote the document.
SaveWrites(p, op) == SaveStep(p, op) /\ pc'[p] = "notify"

\* The edges of the booking state machine.
Edges == {<<"pending", "confirmed">>, <<"pending", "cancelled">>,
          <<"confirmed", "completed">>, <<"confirmed", "cancelled">>}

\* ------------------------------------------------------------ claims

\* C1: a save of updateBookingStatus changes a booking's status only along an
\* edge of the state machine; for any other (current, target) pair the status
\* is left as it is.
C1_OnlyStateMachineEdges ==
  [][\A p \in Procs :
       SaveStep(p, "updateBookingStatus")
         => \/ bookings'[req[p].b].status = bookings[req[p].b].status
            \/ <<bookings[req[p].b].status, bookings'[req[p].b].status>> \in Edges]_vars

\* C2: under interleaved confirmPayment and stripeWebhook requests a booking
\* is marked paid by at most one save, and the paid fan-out runs at most once.
C2_PaidAtMostOnce ==
  \A b \in BookingIds : paidWrites[b] <= 1 /\ paidFanouts[b] <= 1

\* Worker p takes a request of handler op that passes the handler's checks.
Accepted(p, op) == pc[p] = "idle" /\ pc'[p] = "save" /\ req'[p].op = op

\* The step being taken answers a request of handler op, whose booking id
\* parses, in its first step.
Rejected(op) == last'.op = op /\ last'.step = "begin" /\ last'.b # BadId

\* C3: when requests are served one after the other, a confirmPayment by the
\* owner on a booking that is already paid is answered 400 and changes
\* nothing, no confirmPayment writes over a recorded payment, and the paid
\* fan-out runs at most once per booking.
C3_SecondConfirmRejected ==
  [][/\ \A p \in Procs :
          Accepted(p, "confirmPayment") => ~bookings[req'[p].b].isPaid
     /\ \A p \in Procs :
          SaveWrites(p, "confirmPayment")
            => ~bookings[req[p].b].isPaid /\ paidWrites[req[p].b] = 0
     /\ ( /\ Rejected("confirmPayment")
          /\ bookings[last'.b].exists
          /\ bookings[last'.b].isPaid
          /\ last'.actor = bookings[last'.b].user )
          => /\ last'.code = 400
             /\ last'.sent = 0
             /\ UNCHANGED <<bookings, paidWrites, paidFanouts>>
     /\ \A b \in BookingIds : paidFanouts'[b] <= 1]_vars

\* A second confirmPayment with another transaction id has just been refused.
C3_Witness ==
  /\ last.op = "confirmPayment" /\ last.step = "begin" /\ last.code = 400
  /\ bookings[last.b].isPaid
  /\ last.actor = bookings[last.b].user
  /\ bookings[last.b].transactionId \in TxIds
  /\ bookings[last.b].transactionId # last.tx
  /\ paidFanouts[last.b] = 1

\* C4: the save of confirmPayment or stripeWebhook leaves the status of a
\* cancelled or completed booking as it is.
C4_PaymentKeepsClosedStatus ==
  [][\A p \in Procs :
       (SaveStep(p, "confirmPayment") \/ SaveStep(p, "stripeWebhook"))
         => (bookings[req[p].b].status \in {"cancelled", "completed"}
               => bookings'[req[p].b].status = bookings[req[p].b].status)]_vars

\* C5: an updateBookingStatus request of the owning User is accepted only for
\* target cancelled; for target confirmed or completed it is answered 403,
\* the booking is unchanged and nothing is sent; no save of a User's request
\* moves a booking to confirmed or completed.
C5_UserMayOnlyCancel ==
  [][/\ \A p \in Procs :
          (Accepted(p, "updateBookingStatus") /\ ~req'[p].isHost)
            => /\ req'[p].status = "cancelled"
               /\ req'[p].actor = bookings[req'[p].b].user
     /\ ( /\ Rejected("updateBookingStatus")
          /\ ~last'.isHost
          /\ last'.status \in {"confirmed", "completed"}
          /\ bookings[last'.b].exists
          /\ last'.actor = bookings[last'.b].user )
          => /\ last'.code = 403
             /\ last'.sent = 0
             /\ UNCHANGED bookings
     /\ \A p \in Procs :
          (SaveStep(p, "updateBookingStatus") /\ ~req[p].isHost)
            => bookings'[req[p].b].status \in {bookings[req[p].b].status, "cancelled"}]_vars

\* The owning User has just been refused target confirmed.
C5_Witness ==
  /\ last.op = "updateBookingStatus" /\ last.code = 403
  /\ last.status = "confirmed"
  /\ last.actor = bookings[last.b].user
  /\ bookings[last.b].status = "pending"

\* The principal of the response is neither the booking's owner nor one of its Hosts.
Stranger(r) ==
  IF r.isHost
  THEN ~isVenueOwner(bookings[r.b], r.actor) /\ ~isServiceProvider(bookings[r.b], r.actor)
  ELSE bookings[r.b].user # r.actor

\* C6 (for the valid target statuses): an updateBookingStatus request of a
\* Host the booking does not reference, or of a User who does not own it, is
\* answered 403 Forbidden and nothing is sent.
C6_StrangersForbidden ==
  ( /\ last.op = "updateBookingStatus"
    /\ last.status \in {"confirmed", "cancelled", "completed"}
    /\ last.b \in BookingIds
    /\ bookings[last.b].exists
    /\ Stranger(last) )
    => last.code = 403 /\ last.sent = 0

\* C7: an updateBookingStatus request whose target is missing or is not one
\* of confirmed, cancelled, completed is answered 400 in its first step and
\* changes nothing; only valid targets are accepted; a booking that has left
\* pending never returns to it.
C7_InvalidTargetRejected ==
  [][/\ \A p \in Procs :
          Accepted(p, "updateBookingStatus")
            => req'[p].status \in {"confirmed", "cancelled", "completed"}
     /\ ( /\ last'.op = "updateBookingStatus"
          /\ last'.status \notin {"confirmed", "cancelled", "completed"} )
          => /\ last'.code = 400
             /\ last'.step = "begin"
             /\ last'.sent = 0
             /\ UNCHANGED bookings
     /\ \A b \in BookingIds :
          (bookings[b].exists /\ bookings[b].status # "pending")
            => bookings'[b].status # "pending"]_vars

\* Target pending has just been refused on a booking that had left pending.
C7_Witness ==
  /\ last.op = "updateBookingStatus" /\ last.status = "pending" /\ last.code = 400
  /\ last.b \in BookingIds
  /\ bookings[last.b].exists
  /\ bookings[last.b].status = "completed"

\* C8: when requests are served one after the other, a payment_intent.succeeded
\* callback for a booking that is already paid (as a first processing of the
\* callback leaves it) is acknowledged with 200, changes no booking and sends
\* nothing; the callback is accepted for a save only on an unpaid booking, and
\* that save is acknowledged with 200 and, if it writes, records the intent id,
\* the date and status confirmed.
C8_WebhookIdempotent ==
  [][/\ \A p \in Procs :
          Accepted(p, "stripeWebhook") => ~bookings[req'[p].b].isPaid
     /\ ( /\ Rejected("stripeWebhook")
          /\ last'.status = "payment_intent.succeeded"
          /\ last'.b \in BookingIds
          /\ bookings[last'.b].isPaid )
          => /\ last'.code = 200
             /\ last'.sent = 0
             /\ UNCHANGED <<bookings, paidWrites, paidFanouts>>
     /\ \A p \in Procs :
          SaveStep(p, "stripeWebhook")
            => /\ last'.code = 200
               /\ last'.sent = 0
               /\ UNCHANGED paidFanouts
               /\ \/ UNCHANGED bookings
                  \/ /\ bookings'[req[p].b].isPaid
                     /\ bookings'[req[p].b].transactionId = req[p].tx
                     /\ bookings'[req[p].b].paymentDate = req[p].date
                     /\ bookings'[req[p].b].status = "confirmed"]_vars

\* The callback whose intent the booking records has just been processed again.
C8_Witness ==
  /\ last.op = "stripeWebhook" /\ last.step = "begin" /\ last.code = 200
  /\ last.status = "payment_intent.succeeded"
  /\ last.b \in BookingIds
  /\ bookings[last.b].isPaid
  /\ bookings[last.b].transactionId = last.tx
  /\ paidWrites[last.b] = 1

\* C9: confirmPayment is accepted, and marks a booking paid, only for the
\* booking's owning User; a request of a Host or of another User is answered
\* 401 or 403 and changes nothing; the request of a User of role user for a
\* booking that does not exist is answered 404.
C9_OnlyOwnerConfirms ==
  [][/\ \A p \in Procs :
          Accepted(p, "confirmPayment")
            => /\ ~req'[p].isHost
               /\ bookings[req'[p].b].exists
               /\ bookings[req'[p].b].user = req'[p].actor
     /\ \A p \in Procs :
          SaveStep(p, "confirmPayment") => bookings[req[p].b].user = req[p].actor
     /\ ( /\ Rejected("confirmPayment")
          /\ bookings[last'.b].exists
          /\ (last'.isHost \/ bookings[last'.b].user # last'.actor) )
          => /\ last'.code \in {401, 403}
             /\ last'.sent = 0
             /\ UNCHANGED <<bookings, paidWrites, paidFanouts>>
     /\ ( /\ Rejected("confirmPayment")
          /\ ~last'.isHost
          /\ role(last'.actor) = "user"
          /\ ~bookings[last'.b].exists )
          => /\ last'.code = 404
             /\ UNCHANGED <<bookings, paidWrites, paidFanouts>>]_vars

\* Another User has just been refused on an unpaid booking.
C9_Witness ==
  /\ last.op = "confirmPayment" /\ last.code = 401
  /\ ~last.isHost
  /\ bookings[last.b].exists
  /\ bookings[last.b].user # last.actor
  /\ ~bookings[last.b].isPaid

\* C10: when requests are served one after the other, a confirmPayment
\* answered 200 leaves the booking paid under its transaction id with status
\* confirmed, and an updateBookingStatus(completed) of the venue's Host (whose
\* account exists) on a booking paid through confirmPayment leaves it completed.
C10_ConfirmThenComplete ==
  /\ (last.op = "confirmPayment" /\ last.code = 200)
       => /\ bookings[last.b].isPaid
          /\ bookings[last.b].transactionId = last.tx
          /\ bookings[last.b].status = "confirmed"
  /\ ( /\ last.op = "updateBookingStatus"
       /\ last.status = "completed"
       /\ last.isHost
       /\ last.actor \in hosts
       /\ last.b \in BookingIds
       /\ bookings[last.b].exists
       /\ isVenueOwner(bookings[last.b], last.actor)
       /\ bookings[last.b].isPaid
       /\ paidWrites[last.b] = 1
       /\ bookings[last.b].transactionId \in TxIds )
       => bookings[last.b].status = "completed"

\* A venue reference that names a verified Host of type venue.
ValidVenue(v) == v \in hosts /\ hostType(v) = "venue" /\ isVerified(v)

\* A service entry whose provider is a verified Host of the entry's type.
ValidService(e) ==
  /\ e.serviceProvider \in hosts
  /\ isVerified(e.serviceProvider)
  /\ \/ e.serviceType = "catering" /\ hostType(e.serviceProvider) = "caterer"
     \/ e.serviceType = "decoration" /\ hostType(e.serviceProvider) = "decorator"
     \/ e.serviceType = "organization" /\ hostType(e.serviceProvider) = "organizer"

\* Every Host a booking request or document names is valid.
\* Every id of the request parses.
WellFormedRefs(venue, services) ==
  /\ venue # BadHostId
  /\ \A i \in 1..Len(services) : services[i].serviceProvider # BadHostId

ValidRefs(venue, services) ==
  /\ venue # Unset => ValidVenue(venue)
  /\ \A i \in 1..Len(services) : ValidService(services[i])

C12_LateStartIsValidation ==
  ( /\ last.op = "createBooking"
    /\ last.step \in {"begin", "save"}
    /\ last.code \notin {403, 404}
    /\ last.startDate > AddThreeMonths(now) )
    => last.code = 400

\* C13: a booking is inserted with status pending, whatever status the request
\* body carries, and its owner is the User (never a Host) whose createBooking
\* request inserts it.
C13_CreatedPendingByUser ==
  [][\A b \in BookingIds :
       (~bookings[b].exists /\ bookings'[b].exists)
         => /\ bookings'[b].status = "pending"
            /\ bookings'[b].user \in Users
            /\ \E p \in Procs :
                 /\ SaveStep(p, "createBooking")
                 /\ ~req[p].isHost
                 /\ bookings'[b].user = req[p].actor]_vars

\* A request whose body carried status confirmed has created a pending booking.
C13_Witness ==
  /\ last.op = "createBooking" /\ last.code = 201
  /\ last.status = "confirmed"
  /\ bookings[last.b].status = "pending"
  /\ bookings[last.b].user = last.actor

\* C14: in every stored booking isServiceOnly is true exactly when the booking
\* has no venue and at least one service entry.
C14_ServiceOnlyIff ==
  \A b \in BookingIds :
    bookings[b].exists
      => (bookings[b].isServiceOnly
            <=> (bookings[b].venue = Unset /\ Len(bookings[b].services) > 0))

\* A service-only booking and its creation's response.
C14_Witness ==
  /\ last.op = "createBooking" /\ last.code = 201
  /\ bookings[last.b].isServiceOnly
  /\ bookings[last.b].venue = Unset
  /\ Len(bookings[last.b].services) = 2

\* The Hosts that provide some service of the booking.
DistinctProviders(bk) == {bk.services[i].serviceProvider : i \in 1..Len(bk.services)}

\* C15: an updateBookingStatus that answers 200 has sent one email+SMS pair
\* to the owner and, for target cancelled or completed, one pair to the venue
\* Host (if any) and one pair to each distinct provider; for target confirmed
\* nothing goes to a Host.
C15_OnePairPerParty ==
  ( /\ last.op = "updateBookingStatus"
    /\ last.step = "notify"
    /\ last.code = 200
    /\ bookings[last.b].exists )
    => last.sent =
         2 * (1 + IF last.status \in {"cancelled", "completed"}
                  THEN (IF bookings[last.b].venue # Unset THEN 1 ELSE 0)
                       + Cardinality(DistinctProviders(bookings[last.b]))
                  ELSE 0)

\* C16: when a send fails in the fan-out of updateBookingStatus, the request
\* is answered 500 and the booking keeps the status the request has saved.
C16_NoRollback ==
  [][\A p \in Procs :
       ( /\ pc[p] = "notify"
         /\ req[p].op = "updateBookingStatus"
         /\ last'.op = "updateBookingStatus"
         /\ last'.code = 500 )
         => /\ UNCHANGED bookings
            /\ bookings'[req[p].b].status = req[p].status]_vars

\* A cancellation whose fan-out failed after the owner's pair was sent.
C16_Witness ==
  /\ last.op = "updateBookingStatus" /\ last.step = "notify" /\ last.code = 500
  /\ last.status = "cancelled"
  /\ last.sent = 2
  /\ bookings[last.b].status = "cancelled"

\* C17: a failed send does not abort createBooking, updateBookingStatus or
\* confirmPayment: a fan-out that was cut short still ends in the success
\* response.
C17_SendFailureTolerated ==
  ( /\ last.op \in {"createBooking", "updateBookingStatus", "confirmPayment"}
    /\ last.step = "notify"
    /\ bookings[last.b].exists
    /\ last.sent < numSends(last.op, bookings[last.b],
                            IF last.op = "updateBookingStatus" THEN last.status ELSE Unset) )
    => last.code \in {200, 201}

\* C18: getBooking and getPaymentDetails answer a User who does not own the
\* booking, and a Host it does not reference, with an authorization error and
\* without the booking.
C18_ReadsOnlyForParties ==
  ( /\ last.op \in {"getBooking", "getPaymentDetails"}
    /\ last.b \in BookingIds
    /\ bookings[last.b].exists
    /\ Stranger(last) )
    => last.code \in {401, 403} /\ last.data = {}

\* C19: getBookings returns to a User only bookings the User owns and to a
\* Host only bookings that name it as venue or as a service provider,
\* whatever the filters.
C19_ListOnlyOwn ==
  last.op = "getBookings"
    => \A b \in last.data :
         /\ bookings[b].exists
         /\ IF last.isHost
            THEN \/ bookings[b].venue = last.actor
                 \/ \E i \in 1..Len(bookings[b].services) :
                      bookings[b].services[i].serviceProvider = last.actor
            ELSE bookings[b].user = last.actor

\* A provider has listed, under a status filter, a booking that names it.
C19_Witness ==
  /\ last.op = "getBookings" /\ last.code = 200
  /\ last.isHost /\ last.actor = "h2"
  /\ last.status = "cancelled"
  /\ last.data # {}

\* C20: a stored booking leaves the store only in the remove step of a
\* deleteBooking request of a User of role admin; a deleteBooking request of
\* a Host or of another User is answered 403 and leaves the booking in place.
C20_OnlyAdminDeletes ==
  [][/\ \A b \in BookingIds :
          (bookings[b].exists /\ ~bookings'[b].exists)
            => \E p \in Procs :
                 /\ SaveStep(p, "deleteBooking")
                 /\ req[p].b = b
                 /\ ~req[p].isHost
                 /\ role(req[p].actor) = "admin"
     /\ \A p \in Procs :
          Accepted(p, "deleteBooking") => ~req'[p].isHost /\ role(req'[p].actor) = "admin"
     /\ ( /\ Rejected("deleteBooking")
          /\ (last'.isHost \/ role(last'.actor) # "admin") )
          => /\ last'.code = 403
             /\ UNCHANGED bookings]_vars

\* The admin has just deleted a paid booking whose venue's Host was removed before.
C20_Witness ==
  /\ last.op = "deleteBooking" /\ last.code = 200
  /\ role(last.actor) = "admin"
  /\ ~bookings[last.b].exists
  /\ nextId > last.b
  /\ paidWrites[last.b] = 1
  /\ "h1" \notin hosts

\* ------------------------------------------------------------ account claims
\* The step being taken is the create step of worker p's registration.
CreateStep(p, kind) == regs[p].kind = kind /\ regs'[p] = IdleReg

\* The Conflict answer of a registration.
Conflict(r) ==
  /\ r.code = 400
  /\ r.error \in {"User with this email or mobile number already exists",
                  "Host with this email or mobile number already exists"}

\* C21: no two principals of one kind share an email or a mobile number, and a
\* registerHost whose email or mobile number is already held by a Host when its
\* document is about to be created is answered with Conflict and creates
\* nothing.
C21_DuplicateIsConflict ==
  [][/\ \A a, b \in AccountIds :
          (a # b /\ accounts'[a].exists /\ accounts'[b].exists
           /\ accounts'[a].kind = accounts'[b].kind)
          => /\ accounts'[a].email # accounts'[b].email
             /\ accounts'[a].mobileNumber # accounts'[b].mobileNumber
     /\ \A p \in Procs :
          (CreateStep(p, "host") /\ existing("host", regs[p].email, regs[p].mobileNumber))
          => Conflict(reply') /\ accounts' = accounts]_vars

\* The slot of a record a channel's code is held in.
Slot(rec, type) == IF type = "email" THEN rec.emailOTP ELSE rec.mobileOTP
Flag(acc, type) == IF type = "email" THEN acc.emailVerified ELSE acc.mobileVerified
Channels == {"email", "mobile"}
OtherChannel(type) == IF type = "email" THEN "mobile" ELSE "email"

C23_RemovedOnceBothVerified ==
  [][reply'.op = "verifyOTP"
     => /\ otpStore[reply'.email] = NoOTP
           => reply'.code = 400 /\ reply'.error = "Invalid or expired OTP"
        /\ (reply'.code = 200 /\ accounts'[reply'.id].kind = "user")
           => (otpStore'[reply'.email] = NoOTP
               <=> (accounts'[reply'.id].emailVerified
                    /\ accounts'[reply'.id].mobileVerified))]_vars

ProfileOps == {"createVenue", "updateVenue", "updateServiceProvider"}

\* C27: a Host profile update (createVenue, updateVenue, updateServiceProvider)
\* leaves isVerified, emailVerified and mobileVerified of every principal as they
\* were, so a Host is verified only if both of its channels are.
C27_ProfileKeepsVerification ==
  [][/\ reply'.op \in ProfileOps
        => \A a \in AccountIds :
             /\ accounts'[a].isVerified = accounts[a].isVerified
             /\ accounts'[a].emailVerified = accounts[a].emailVerified
             /\ accounts'[a].mobileVerified = accounts[a].mobileVerified
     /\ \A a \in AccountIds :
          accounts'[a].isVerified
          => accounts'[a].emailVerified /\ accounts'[a].mobileVerified]_vars

\* C28: verifyOTP accepts a request only if its type is email or mobile and its
\* otp is the six-digit code the record holds in that channel's slot.
C28_OnlyGeneratedCodeAccepted ==
  [][(reply'.op = "verifyOTP" /\ reply'.code = 200)
     => /\ reply'.type \in Channels
        /\ reply'.otp \in Codes
        /\ reply'.otp = Slot(otpStore[reply'.email], reply'.type)]_vars

\* C29: a registration leaves the pending codes of every other principal in the
\* store as they were.
C29_RegistrationKeepsPendingCodes ==
  [][\A p \in Procs :
       (regs[p] # IdleReg /\ regs'[p] = IdleReg)
       => \A e \in Emails : otpStore[e] # NoOTP => otpStore'[e] = otpStore[e]]_vars

\* ------------------------------------------------------------ listing claims
Max(x, y) == IF x > y THEN x ELSE y

\* C24: a listing response for page p and limit l over T matching Hosts holds
\* min(l, max(0, T - (p-1)*l)) items, a next descriptor for page p+1 iff p*l < T,
\* a prev descriptor for page p-1 iff p > 1, and reports T as its count.
C24_PageAndTotal ==
  last.op \in {"getVenues", "getServiceProviders"}
  => LET l == last.list
         p == orDefault(parseInt(l.page), DefaultPage)
         lim == orDefault(parseInt(l.limit), DefaultLimit)
         T == Len(findHosts(IF last.op = "getVenues" THEN {"venue"}
                            ELSE providerQuery(l.type)))
     IN /\ last.code = 200
        /\ Len(l.data) = Min(lim, Max(0, T - (p - 1) * lim))
        /\ (l.next # 0) <=> (p * lim < T)
        /\ l.next # 0 => l.next = p + 1
        /\ (l.prev # 0) <=> (p > 1)
        /\ l.prev # 0 => l.prev = p - 1
        /\ l.count = T

\* ------------------------------------------------------------ identifier and intent claims
\* C25: a booking or payment request whose booking id, venue id or
\* service-provider id does not parse is answered 404, unless a check that
\* precedes the lookup has already refused it, and changes no state.
C25_MalformedIdIsNotFound ==
  [][(/\ last' # NoResp
      /\ last'.op \in {"getBooking", "updateBookingStatus", "deleteBooking", "createBooking",
                       "createPaymentIntent", "confirmPayment", "getPaymentDetails"}
      /\ \/ last'.b = BadId
         \/ last'.venue = BadHostId
         \/ \E i \in 1..Len(last'.services) : last'.services[i].serviceProvider = BadHostId)
     => /\ last'.code # 500
        /\ UNCHANGED <<bookings, hosts, nextId, paidWrites, paidFanouts>>]_vars

\* C26: createPaymentIntent leaves every booking as it was; it calls the
\* provider only for an existing unpaid booking, on the request of the User who
\* owns it, with method online_payment, and every other request fails with no
\* intent created.
C26_IntentOnlyForOwnerUnpaidOnline ==
  [][last'.op = "createPaymentIntent"
     => /\ bookings' = bookings
        /\ last'.step = "stripe"
           => /\ last'.b \in BookingIds
              /\ bookings[last'.b].exists
              /\ ~last'.isHost /\ bookings[last'.b].user = last'.actor
              /\ ~bookings[last'.b].isPaid
              /\ last'.method = "online_payment"
        /\ last'.step # "stripe" => last'.code >= 400 /\ last'.tx = Unset
        /\ last'.code = 200 <=> last'.tx # Unset]_vars

\* An intent has been created for the owner of an unpaid booking.
C26_Witness ==
  /\ last.op = "createPaymentIntent" /\ last.code = 200 /\ last.tx \in IntentIds
  /\ last.method = "online_payment"
  /\ bookings[last.b].exists /\ ~bookings[last.b].isPaid

\* ------------------------------------------------------------ payment at creation
\* C30: the document a createBooking inserts has payment.isPaid false and no
\* payment.transactionId, whatever the request body holds, and a booking that
\* is paid stays paid for as long as it exists.
C30_CreatedUnpaid ==
  [][\A b \in BookingIds :
       /\ (~bookings[b].exists /\ bookings'[b].exists)
          => ~bookings'[b].isPaid /\ bookings'[b].transactionId = Unset
       /\ (bookings[b].isPaid /\ bookings'[b].exists) => bookings'[b].isPaid]_vars

====
